---- MODULE Spec2Model ----
(***************************************************************************)
(* Fibre Channel link-layer framing (net/802/fc.c): fc_header builds the   *)
(* hardware header and the optional LLC/SNAP sub-header in front of an     *)
(* sk_buff; fc_setup / alloc_fcdev(_mq) configure the net_device.          *)
(*                                                                         *)
(* Memory is modelled byte by byte.  An sk_buff is its whole linear area   *)
(* (head), the offset of the data pointer inside it (data, counted in      *)
(* bytes from head) and the length of the data (len).  Two transmit        *)
(* contexts run fc_header on their own sk_buff against one net_device,     *)
(* one source statement group per step.                                    *)
(***************************************************************************)
EXTENDS Integers, Sequences, FiniteSets, TLC

VARIABLES dev, pc, args, skb, skb0, fch, hdr_len, ret

vars == <<dev, pc, args, skb, skb0, fch, hdr_len, ret>>

(* ---------------- bounds of the model ---------------- *)

\* bytes of headroom in front of the payload of a fresh sk_buff
SkbHeadroom == 22
\* longest payload already in the buffer when fc_header is called
MaxPayload == 1
\* size of the caller's address buffers (the address is their first addr_len bytes)
AddrBufLen == 7

Threads == {1, 2}

NULL == <<>>

(* ---------------- declarations from the included headers ---------------- *)

\* octets in a hardware address
FC_ALEN == 6
\* struct fch_hdr: daddr[FC_ALEN], saddr[FC_ALEN]
sizeof_fch_hdr == FC_ALEN + FC_ALEN
\* struct fcllc: dsap, ssap, llc, protid[3], ethertype
sizeof_fcllc == 1 + 1 + 1 + 3 + 2
\* the device's header length: the hardware header
FC_HLEN == sizeof_fch_hdr
EXTENDED_SAP == 170
UI_CMD == 3
ETH_P_IP == 2048
ETH_P_ARP == 2054
ETH_ALEN == 6
IFF_BROADCAST == 2
ARPHRD_IEEE802 == 6

(* ---------------- byte and memory helpers ---------------- *)

\* the first n bytes of a buffer
Take(s, n) == SubSeq(s, 1, n)

\* memcpy / memset into mem at byte offset off (0-based)
MemWrite(mem, off, bytes) ==
  [k \in 1..Len(mem) |->
     IF k > off /\ k <= off + Len(bytes) THEN bytes[k - off] ELSE mem[k]]

Fill(n, b) == [k \in 1..n |-> b]

\* htons: identity on a big-endian host, byte swap on a little-endian one
htons(le, x) == IF le THEN (x % 256) * 256 + (x \div 256) ELSE x

\* the two bytes a 16-bit store leaves in memory, lowest address first
Store16(le, v) == IF le THEN <<v % 256, v \div 256>> ELSE <<v \div 256, v % 256>>

\* skb_push: move the data pointer n bytes towards head, grow len by n
skb_push(s, n) == [s EXCEPT !.data = @ - n, !.len = @ + n]

\* eth_broadcast_addr: memset(addr, 0xff, ETH_ALEN)
eth_broadcast_addr(addr) == MemWrite(addr, 0, Fill(ETH_ALEN, 255))

(* ---------------- inputs ---------------- *)

AddrTail == [k \in 1..(AddrBufLen - FC_ALEN) |-> 16 + k]

DevAddrs == { <<17, 34, 51, 68, 85, 102>> \o AddrTail,
              <<2, 0, 0, 0, 0, 1>> \o AddrTail }

DestAddrs == { NULL, <<170, 187, 204, 221, 238, 255>> \o AddrTail }

SrcAddrs == { NULL, <<222, 173, 190, 239, 0, 1>> \o AddrTail }

\* IP, ARP, and a type that is neither (IP with its bytes swapped)
Types == { ETH_P_IP, ETH_P_ARP, 8 }

LenValues == { 0, 1500 }

QueueCounts == { 1, 2 }

\* what the headroom of a fresh sk_buff holds: it is not initialised
Residues == { 0, 90 }

\* an empty buffer and one with the longest payload
PayloadLens == { 0, MaxPayload }

Payload(n) == [k \in 1..n |-> 69 + k]

FreshSkb(r, n) ==
  [ head |-> [k \in 1..SkbHeadroom |-> (r + k) % 256] \o Payload(n),
    data |-> SkbHeadroom,
    len  |-> n ]

NoSkb == [ head |-> <<>>, data |-> 0, len |-> 0 ]

NoArgs == [ type |-> 0, daddr |-> NULL, saddr |-> NULL, len |-> 0 ]

\* a net_device as alloc_netdev_mqs leaves it before the setup callback
ZeroDev(addr) ==
  [ header_ops      |-> "NULL",
    type            |-> 0,
    hard_header_len |-> 0,
    mtu             |-> 0,
    addr_len        |-> 0,
    tx_queue_len    |-> 0,
    flags           |-> 0,
    broadcast       |-> Fill(AddrBufLen, 0),
    dev_addr        |-> addr,
    num_tx_queues   |-> 0,
    num_rx_queues   |-> 0 ]

(* ---------------- fc_setup, alloc_fcdev ---------------- *)

fc_setup_mtu1500(d) ==
  [ d EXCEPT !.header_ops      = "fc_header_ops",
             !.type            = ARPHRD_IEEE802,
             !.hard_header_len = FC_HLEN,
             !.mtu             = 1500,
             !.addr_len        = FC_ALEN,
             !.tx_queue_len    = 100,
             !.flags           = IFF_BROADCAST,
             !.broadcast       = eth_broadcast_addr(@) ]

fc_setup(d) ==
  [ d EXCEPT !.header_ops      = "fc_header_ops",
             !.type            = ARPHRD_IEEE802,
             !.hard_header_len = FC_HLEN,
             !.mtu             = 2024,
             !.addr_len        = FC_ALEN,
             !.tx_queue_len    = 100,
             !.flags           = IFF_BROADCAST,
             !.broadcast       = eth_broadcast_addr(@) ]

\* alloc_netdev_mqs(sizeof_priv, "fc%d", NET_NAME_ENUM, fc_setup, txqs, rxqs):
\* the zeroed device gets its queue counts and is handed to the setup callback
alloc_netdev_mqs(d, txqs, rxqs) ==
  fc_setup([ d EXCEPT !.num_tx_queues = txqs, !.num_rx_queues = rxqs ])

\* lines 113-117
alloc_fcdev_mq(d, queue_count) == alloc_netdev_mqs(d, queue_count, queue_count)

\* lines 121-124
alloc_fcdev(d) == alloc_fcdev_mq(d, 1)

\* a driver obtains its device through the legacy entry point
call_alloc_fcdev ==
  /\ dev.header_ops = "NULL"
  /\ dev' = alloc_fcdev(dev)
  /\ UNCHANGED <<pc, args, skb, skb0, fch, hdr_len, ret>>

\* a driver obtains its device through the multi-queue entry point
call_alloc_fcdev_mq ==
  /\ dev.header_ops = "NULL"
  /\ \E queue_count \in QueueCounts : dev' = alloc_fcdev_mq(dev, queue_count)
  /\ UNCHANGED <<pc, args, skb, skb0, fch, hdr_len, ret>>

(* ---------------- fc_header ---------------- *)

IsSnapTypeIpOnly(type) == type = ETH_P_IP

\* line 50: the protocols that get an LLC/SNAP sub-header
IsSnapType(type) == type = ETH_P_IP \/ type = ETH_P_ARP

\* lines 53 and 64
HdrLen(type) ==
  IF IsSnapType(type) THEN sizeof_fch_hdr + sizeof_fcllc ELSE sizeof_fch_hdr

SnapWriteNoMemset(mem, off, le, type) ==
  MemWrite(MemWrite(mem, off, <<EXTENDED_SAP, EXTENDED_SAP, UI_CMD>>),
           off + 6, Store16(le, htons(le, type)))

SnapWriteShortMemset(mem, off, le, type) ==
  MemWrite(MemWrite(MemWrite(mem, off, <<EXTENDED_SAP, EXTENDED_SAP, UI_CMD>>),
                    off + 3, Fill(2, 0)),
           off + 6, Store16(le, htons(le, type)))

\* lines 58-62: dsap, ssap, llc, protid, ethertype of the fcllc at offset off
SnapWrite(mem, off, le, type) ==
  MemWrite(MemWrite(MemWrite(mem, off, <<EXTENDED_SAP, EXTENDED_SAP, UI_CMD>>),
                    off + 3, Fill(3, 0)),
           off + 6, Store16(le, htons(le, type)))

SaddrSourceDevOnly(saddr, d) == d.dev_addr

\* lines 69-72: the buffer the source address is copied from
SaddrSource(saddr, d) == IF saddr # NULL THEN saddr ELSE d.dev_addr

SaddrWriteSpill(mem, off, saddr, d) ==
  MemWrite(mem, off + FC_ALEN, Take(SaddrSource(saddr, d), d.addr_len + 1))

\* lines 70 and 72: memcpy(fch->saddr, ..., dev->addr_len)
SaddrWrite(mem, off, saddr, d) ==
  MemWrite(mem, off + FC_ALEN, Take(SaddrSource(saddr, d), d.addr_len))

DaddrWriteZeroed(mem, off, daddr, d) ==
  IF daddr # NULL THEN MemWrite(mem, off, Take(daddr, d.addr_len))
  ELSE MemWrite(mem, off, Fill(d.addr_len, 0))

\* lines 75-76: memcpy(fch->daddr, daddr, dev->addr_len) when daddr is given
DaddrWrite(mem, off, daddr, d) ==
  IF daddr # NULL THEN MemWrite(mem, off, Take(daddr, d.addr_len)) ELSE mem

RetValAlwaysPositive(daddr, n) == n

\* lines 75-81
RetVal(daddr, n) == IF daddr # NULL THEN n ELSE -n

\* fc_header is called by the transmit path with a buffer of its own
fc_header_call(t) ==
  /\ pc[t] = "idle"
  /\ dev.header_ops = "fc_header_ops"
  /\ \E type \in Types, daddr \in DestAddrs, saddr \in SrcAddrs,
        len \in LenValues, r \in Residues, n \in PayloadLens :
       /\ args' = [args EXCEPT ![t] = [ type |-> type, daddr |-> daddr,
                                        saddr |-> saddr, len |-> len ]]
       /\ skb' = [skb EXCEPT ![t] = FreshSkb(r, n)]
       /\ skb0' = [skb0 EXCEPT ![t] = FreshSkb(r, n)]
  /\ pc' = [pc EXCEPT ![t] = "push"]
  /\ UNCHANGED <<dev, fch, hdr_len, ret>>

fc_header_push_static_fch(t) ==
  /\ pc[t] = "push"
  /\ hdr_len' = [hdr_len EXCEPT ![t] = HdrLen(args[t].type)]
  /\ skb' = [skb EXCEPT ![t] = skb_push(@, HdrLen(args[t].type))]
  /\ fch' = [u \in Threads |-> skb[t].data - HdrLen(args[t].type)]
  /\ pc' = [pc EXCEPT ![t] = IF IsSnapType(args[t].type) THEN "snap" ELSE "saddr"]
  /\ UNCHANGED <<dev, args, skb0, ret>>

\* lines 50-54 and 63-66: choose the header length and reserve it
fc_header_push(t) ==
  /\ pc[t] = "push"
  /\ hdr_len' = [hdr_len EXCEPT ![t] = HdrLen(args[t].type)]
  /\ skb' = [skb EXCEPT ![t] = skb_push(@, HdrLen(args[t].type))]
  /\ fch' = [fch EXCEPT ![t] = skb[t].data - HdrLen(args[t].type)]
  /\ pc' = [pc EXCEPT ![t] = IF IsSnapType(args[t].type) THEN "snap" ELSE "saddr"]
  /\ UNCHANGED <<dev, args, skb0, ret>>

\* lines 55-62: fcllc = (struct fcllc *)(fch + 1) and its fields
fc_header_snap(t) ==
  /\ pc[t] = "snap"
  /\ \E le \in BOOLEAN :
       skb' = [skb EXCEPT ![t].head =
                 SnapWrite(@, fch[t] + sizeof_fch_hdr, le, args[t].type)]
  /\ pc' = [pc EXCEPT ![t] = "saddr"]
  /\ UNCHANGED <<dev, args, skb0, fch, hdr_len, ret>>

\* lines 68-72
fc_header_saddr(t) ==
  /\ pc[t] = "saddr"
  /\ skb' = [skb EXCEPT ![t].head = SaddrWrite(@, fch[t], args[t].saddr, dev)]
  /\ pc' = [pc EXCEPT ![t] = "daddr"]
  /\ UNCHANGED <<dev, args, skb0, fch, hdr_len, ret>>

\* lines 74-81
fc_header_daddr(t) ==
  /\ pc[t] = "daddr"
  /\ skb' = [skb EXCEPT ![t].head = DaddrWrite(@, fch[t], args[t].daddr, dev)]
  /\ ret' = [ret EXCEPT ![t] = RetVal(args[t].daddr, hdr_len[t])]
  /\ pc' = [pc EXCEPT ![t] = "done"]
  /\ UNCHANGED <<dev, args, skb0, fch, hdr_len>>

\* lines 40-82 run without interruption on buffer s
fc_header(s, d, a, le) ==
  LET n  == HdrLen(a.type)
      s1 == skb_push(s, n)
      f  == s1.data
      m1 == IF IsSnapType(a.type)
              THEN SnapWrite(s1.head, f + sizeof_fch_hdr, le, a.type)
              ELSE s1.head
      m2 == SaddrWrite(m1, f, a.saddr, d)
      m3 == DaddrWrite(m2, f, a.daddr, d)
  IN [ skb |-> [s1 EXCEPT !.head = m3], ret |-> RetVal(a.daddr, n) ]

(* ---------------- specification ---------------- *)

Init ==
  /\ dev \in { ZeroDev(a) : a \in DevAddrs }
  /\ pc = [t \in Threads |-> "idle"]
  /\ args = [t \in Threads |-> NoArgs]
  /\ skb = [t \in Threads |-> NoSkb]
  /\ skb0 = [t \in Threads |-> NoSkb]
  /\ fch = [t \in Threads |-> 0]
  /\ hdr_len = [t \in Threads |-> 0]
  /\ ret = [t \in Threads |-> 0]

Next ==
  \/ call_alloc_fcdev
  \/ call_alloc_fcdev_mq
  \/ \E t \in Threads : fc_header_call(t)
  \/ \E t \in Threads : fc_header_push(t)
  \/ \E t \in Threads : fc_header_snap(t)
  \/ \E t \in Threads : fc_header_saddr(t)
  \/ \E t \in Threads : fc_header_daddr(t)

Spec == Init /\ [][Next]_vars

(* ---------------- observations ---------------- *)

Done(t) == pc[t] = "done"

Abs(x) == IF x < 0 THEN -x ELSE x

\* bytes the call has put in front of the data that was there before it
Pushed(t) == skb0[t].data - skb[t].data

\* the bytes i..j (1-based) of the frame as it now starts at the data pointer
Frame(t, i, j) == SubSeq(skb[t].head, skb[t].data + i, skb[t].data + j)

\* the whole new header
Header(t) == Frame(t, 1, Pushed(t))

\* the data that was in the buffer before the call, read where it now lies
PayloadNow(t) == SubSeq(skb[t].head, skb0[t].data + 1, skb0[t].data + skb0[t].len)

PayloadBefore(t) == SubSeq(skb0[t].head, skb0[t].data + 1, skb0[t].data + skb0[t].len)

TypeOK ==
  /\ pc \in [Threads -> {"idle", "push", "snap", "saddr", "daddr", "done"}]
  /\ \A t \in Threads : skb[t].data >= 0 /\ skb[t].data + skb[t].len = Len(skb[t].head)

(* ---------------- properties ---------------- *)

SnapBytes(type) ==
  <<EXTENDED_SAP, EXTENDED_SAP, UI_CMD, 0, 0, 0, type \div 256, type % 256>>

SourceField(t) == Frame(t, FC_ALEN + 1, 2 * FC_ALEN)

DestField(t) == Frame(t, 1, FC_ALEN)

\* the bytes that lay, before the call, where the destination field now is
DestFieldBefore(t) == SubSeq(skb0[t].head, skb[t].data + 1, skb[t].data + FC_ALEN)

\* C1: a finished call has grown the buffer at the front by 20 bytes when
\* the type is IP or ARP and by 12 bytes for every other type, and then the
\* old payload follows the 12-byte hardware header directly: the SNAP
\* sub-header is there iff the type is IP or ARP.
C1_HeaderLength ==
  \A t \in Threads : Done(t) =>
    /\ skb[t].len = skb0[t].len + Pushed(t)
    /\ (args[t].type \in {2048, 2054} => Pushed(t) = 20)
    /\ (args[t].type \notin {2048, 2054} =>
          /\ Pushed(t) = 12
          /\ Frame(t, 13, skb[t].len) = PayloadBefore(t))
    /\ (Pushed(t) = 12 + 8 <=> args[t].type \in {ETH_P_IP, ETH_P_ARP})

C1_Witness ==
  \E t, u \in Threads :
    /\ Done(t) /\ args[t].type = ETH_P_ARP /\ Pushed(t) = 20
    /\ Done(u) /\ args[u].type = 8 /\ Pushed(u) = 12 /\ skb0[u].len = MaxPayload

\* C2: after a call with type IP or ARP the 8 bytes behind the hardware
\* header are dsap = ssap = EXTENDED_SAP, llc = UI_CMD, three zero bytes,
\* then the type's high byte and low byte, whether or not a destination
\* was given.
C2_SnapFields ==
  \A t \in Threads : (Done(t) /\ args[t].type \in {ETH_P_IP, ETH_P_ARP}) =>
    /\ Frame(t, sizeof_fch_hdr + 1, sizeof_fch_hdr + 8) = SnapBytes(args[t].type)
    /\ Frame(t, 19, 19)[1] * 256 + Frame(t, 20, 20)[1] = args[t].type

C2_Witness ==
  \E t, u \in Threads :
    /\ Done(t) /\ args[t].type = ETH_P_IP /\ args[t].daddr = NULL
    /\ Frame(t, 19, 20) = <<8, 0>>
    /\ Done(u) /\ args[u].type = ETH_P_ARP /\ args[u].daddr # NULL
    /\ Frame(u, 19, 20) = <<8, 6>>

\* C3: the result is the positive header length when a destination is
\* given and its negative when not; it is never zero, its magnitude is the
\* number of bytes prepended, and that magnitude depends on the type only.
C3_ReturnValue ==
  /\ \A t \in Threads : Done(t) =>
       /\ ret[t] # 0
       /\ Abs(ret[t]) = Pushed(t)
       /\ Abs(ret[t]) = (IF args[t].type \in {ETH_P_IP, ETH_P_ARP} THEN 20 ELSE 12)
       /\ (args[t].daddr # NULL <=> ret[t] > 0)
       /\ (args[t].daddr = NULL <=> ret[t] < 0)
  /\ \A t, u \in Threads :
       (Done(t) /\ Done(u) /\ args[t].type = args[u].type) =>
         /\ Abs(ret[t]) = Abs(ret[u])
         /\ (((args[t].daddr = NULL) <=> (args[u].daddr = NULL)) => ret[t] = ret[u])

C3_Witness ==
  \E t, u \in Threads :
    /\ Done(t) /\ Done(u) /\ args[t].type = args[u].type
    /\ args[t].daddr = NULL /\ args[u].daddr # NULL
    /\ args[t].saddr # args[u].saddr
    /\ ret[t] = -20 /\ ret[u] = 20

\* C4: without a destination the whole header is still reserved, the
\* source field and the SNAP fields are written as in a call that has one,
\* and the destination field holds the bytes that were in that place
\* before the call; with a destination the field is its first addr_len bytes.
C4_DestinationField ==
  /\ \A t \in Threads : (Done(t) /\ args[t].daddr = NULL) =>
       /\ Pushed(t) = (IF args[t].type \in {ETH_P_IP, ETH_P_ARP} THEN 20 ELSE 12)
       /\ DestField(t) = DestFieldBefore(t)
  /\ \A t \in Threads : (Done(t) /\ args[t].daddr # NULL) =>
       DestField(t) = Take(args[t].daddr, FC_ALEN)
  /\ \A t, u \in Threads :
       ( /\ Done(t) /\ Done(u)
         /\ args[t].daddr = NULL /\ args[u].daddr # NULL
         /\ args[t].type = args[u].type /\ args[t].saddr = args[u].saddr ) =>
         Frame(t, FC_ALEN + 1, Pushed(t)) = Frame(u, FC_ALEN + 1, Pushed(u))

C4_Witness ==
  \E t, u \in Threads :
    /\ Done(t) /\ Done(u)
    /\ args[t].daddr = NULL /\ args[u].daddr # NULL
    /\ args[t].type = ETH_P_IP /\ args[u].type = ETH_P_IP
    /\ args[t].saddr = args[u].saddr
    /\ DestField(t) = DestFieldBefore(t)
    /\ DestField(t) # Fill(FC_ALEN, 0)
    /\ DestField(u) = <<170, 187, 204, 221, 238, 255>>

\* C5: the source field of a finished header is the first addr_len bytes
\* of saddr when saddr is given and the device's own address when not,
\* for every type and with or without a destination.
C5_SourceField ==
  \A t \in Threads : Done(t) =>
    /\ (args[t].saddr # NULL => SourceField(t) = Take(args[t].saddr, FC_ALEN))
    /\ (args[t].saddr = NULL => SourceField(t) = Take(dev.dev_addr, FC_ALEN))

C5_Witness ==
  \E t, u \in Threads :
    /\ Done(t) /\ args[t].saddr = NULL
    /\ SourceField(t) = Take(dev.dev_addr, FC_ALEN)
    /\ Done(u) /\ args[u].saddr # NULL
    /\ SourceField(u) = <<222, 173, 190, 239, 0, 1>>
    /\ SourceField(u) # Take(dev.dev_addr, FC_ALEN)

\* C6: at every point of a call the payload that was in the buffer lies
\* where it lay, unchanged; a finished buffer is the new header followed by
\* that payload; two calls that differ in len only give the same buffer and
\* result; and no step after device setup changes the net_device.
C6_PayloadKept ==
  /\ \A t \in Threads : pc[t] # "idle" =>
       /\ PayloadNow(t) = PayloadBefore(t)
       /\ Len(skb[t].head) = Len(skb0[t].head)
  /\ \A t \in Threads : Done(t) =>
       Frame(t, 1, skb[t].len) = Header(t) \o PayloadBefore(t)
  /\ \A t, u \in Threads :
       ( /\ Done(t) /\ Done(u) /\ skb0[t] = skb0[u]
         /\ [args[t] EXCEPT !.len = 0] = [args[u] EXCEPT !.len = 0] ) =>
         (skb[t] = skb[u] /\ ret[t] = ret[u])

C6_DeviceKept == dev.header_ops = "fc_header_ops" => dev' = dev

C6_OnlyPrepends == []C6_PayloadKept /\ [][C6_DeviceKept]_vars

C6_Witness ==
  \E t, u \in Threads :
    /\ Done(t) /\ Done(u) /\ skb0[t] = skb0[u] /\ skb0[t].len = MaxPayload
    /\ args[t].len # args[u].len
    /\ [args[t] EXCEPT !.len = 0] = [args[u] EXCEPT !.len = 0]
    /\ args[t].type = 8
    /\ PayloadNow(t) = Payload(MaxPayload)

\* the two calls get the same arguments and buffers with the same payload
SameInputs(t, u) ==
  /\ args[t] = args[u]
  /\ skb0[t].len = skb0[u].len /\ skb0[t].data = skb0[u].data
  /\ PayloadBefore(t) = PayloadBefore(u)

\* C7 as stated: two finished calls with identical arguments on fresh
\* buffers with the same payload have byte-identical headers and the same
\* result, also when no destination is given.
C7_Original ==
  \A t, u \in Threads : (Done(t) /\ Done(u) /\ SameInputs(t, u)) =>
    (Header(t) = Header(u) /\ ret[t] = ret[u])

\* C7 amended: two such calls have the same result and headers that agree
\* in every byte behind the destination field; the headers are
\* byte-identical when a destination is given, and when none is given they
\* are identical iff the bytes left in the destination field's place were.
C7_Idempotent ==
  \A t, u \in Threads : (Done(t) /\ Done(u) /\ SameInputs(t, u)) =>
    /\ ret[t] = ret[u]
    /\ Pushed(t) = Pushed(u)
    /\ Frame(t, FC_ALEN + 1, Pushed(t)) = Frame(u, FC_ALEN + 1, Pushed(u))
    /\ (args[t].daddr # NULL => Header(t) = Header(u))
    /\ (args[t].daddr = NULL =>
          (Header(t) = Header(u) <=> DestFieldBefore(t) = DestFieldBefore(u)))

C7_Witness ==
  \E t, u \in Threads :
    /\ t # u /\ Done(t) /\ Done(u) /\ SameInputs(t, u)
    /\ args[t].daddr = NULL /\ args[t].type = ETH_P_IP
    /\ skb0[t].head # skb0[u].head
    /\ Header(t) # Header(u)
    /\ Frame(t, FC_ALEN + 1, 20) = Frame(u, FC_ALEN + 1, 20)

\* the step is not one of context t
NotStepOf(t) == pc'[t] = pc[t]

\* C8: however the steps of the calls interleave, a finished call has the
\* buffer and result that fc_header run alone on its buffer gives, and a
\* step of one call changes neither another call's buffer, result or
\* locals nor the net_device.
C8_AsIfAlone ==
  \A t \in Threads : Done(t) =>
    \A le \in BOOLEAN :
      /\ skb[t] = fc_header(skb0[t], dev, args[t], le).skb
      /\ ret[t] = fc_header(skb0[t], dev, args[t], le).ret

C8_NoInterference ==
  /\ \A t \in Threads : NotStepOf(t) =>
       /\ skb'[t] = skb[t] /\ ret'[t] = ret[t]
       /\ fch'[t] = fch[t] /\ hdr_len'[t] = hdr_len[t] /\ args'[t] = args[t]
  /\ ((\E t \in Threads : pc[t] # "idle") => dev' = dev)

C8_Concurrent == []C8_AsIfAlone /\ [][C8_NoInterference]_vars

\* both calls were under way at once and reserved different lengths
C8_Witness ==
  /\ Done(1) /\ Done(2)
  /\ args[1].type = ETH_P_IP /\ args[2].type = 8
  /\ fch[1] # fch[2]
  /\ skb[1] = fc_header(skb0[1], dev, args[1], TRUE).skb

====
